---- MODULE Spec2Model ----
(***************************************************************************)
(* Model of pipdownload/cli.py: the `pipdownload` command.                 *)
(*                                                                         *)
(* Strings are sequences of tokens (<<"foo","-","1.0",".tar.gz">> is the   *)
(* file name foo-1.0.tar.gz); Python's `x in s` is contiguous-subsequence  *)
(* containment and `s.endswith(e)` compares the last token.                *)
(* A Python value that may be None is a record [none, v]: None is          *)
(* [none |-> TRUE, v |-> <<>>], the tuple t is [none |-> FALSE, v |-> t].  *)
(***************************************************************************)
EXTENDS Naturals, Sequences, FiniteSets

VARIABLES
    args,             \* the command line: click's parameters of pipdownload()
    settings_file0,   \* SETTINGS_FILE as the run found it
    settings_file,    \* SETTINGS_FILE now (--show-config may create it)
    platform_tags,    \* local `platform_tags` after lines 122-153
    python_versions,  \* local `python_versions` after lines 122-153
    pc,               \* position of the run
    todo_extra,       \* entries of packages_extra not yet iterated
    pos,              \* number of positional packages already iterated
    directory,        \* file names of the temporary directory not yet iterated
    file_name,        \* the workspace file currently processed
    links,            \* candidates of get_file_links not yet examined
    dest,             \* file names present in dest_dir
    calls,            \* history: pip download invocations, in order
    queries,          \* history: project names session.get was called for, this package
    fetched,          \* history: files download() was called for, this package
    logs,             \* history: logger calls made for this package
    last,             \* the latest candidate examined and what was decided
    raised            \* the exception that left pipdownload(), or "none"

vars == <<args, settings_file0, settings_file, platform_tags, python_versions,
          pc, todo_extra, pos, directory, file_name, links, dest, calls,
          queries, fetched, logs, last, raised>>

---------------------------------------------------------------------------
(* Bounds of the model *)

MaxPackages == 2   \* positional package arguments
MaxTags == 2       \* values of one repeatable tag option
MaxFiles == 2      \* files pip download leaves in the temporary directory

---------------------------------------------------------------------------
(* Python values *)

None == [none |-> TRUE, v |-> <<>>]
Some(t) == [none |-> FALSE, v |-> t]

\* truth value of a tuple / list / None, as `if x:` and `not x` take it
Truthy(x) == ~x.none /\ x.v # <<>>

\* sub in s
Contains(s, sub) ==
    \E i \in 0..Len(s) :
        /\ i + Len(sub) <= Len(s)
        /\ SubSeq(s, i + 1, i + Len(sub)) = sub

\* s.endswith(ext), ext a single token
EndsWith(s, ext) == Len(s) > 0 /\ s[Len(s)] = ext

---------------------------------------------------------------------------
(* The index and the files of the example project *)

none_any == <<"none", "-", "any">>

WinWheel == <<"foo", "-", "1.0", "-", "cp39", "-", "cp39", "-", "win_amd64", ".whl">>
LinuxWheel38 == <<"foo", "-", "1.0", "-", "cp38", "-", "cp38", "-", "manylinux", "2014_x86_64", ".whl">>
LinuxWheel39 == <<"foo", "-", "1.0", "-", "cp39", "-", "cp39", "-", "manylinux", "2014_x86_64", ".whl">>
AnyWheel == <<"foo", "-", "1.0", "-", "py3", "-", "none", "-", "any", ".whl">>
SourceTar == <<"foo", "-", "1.0", ".tar.gz">>
SourceZip == <<"foo", "-", "1.0", ".zip">>
Unknown == <<"README", ".txt">>

PlatformPool == {<<"win_amd64">>, <<"manylinux">>, <<"sunos">>}
VersionPool == {<<"cp39">>, <<"cp27">>}
PackageSpecs == {"a", "b"}

\* what pip download may leave in the temporary directory
WorkspacePool == {WinWheel, SourceTar, SourceZip, Unknown}

\* the values of a repeatable option: distinct tags, in any order
TagSeqs(pool) ==
    {t \in UNION {[1..m -> pool] : m \in 0..MaxTags} :
        \A i, j \in 1..Len(t) : i # j => t[i] # t[j]}
PackageSeqs == UNION {[1..m -> PackageSpecs] : m \in 0..MaxPackages}

\* resolve_package_file: wheel shape (name-version-python-abi-platform.whl),
\* then source shape (name-version.tar.gz|.zip), matched from the right;
\* neither: name and version are None
Dashes(f) == {i \in 1..Len(f) : f[i] = "-"}
DashFromRight(f, n) ==
    CHOOSE d \in Dashes(f) : Cardinality({e \in Dashes(f) : e > d}) = n
resolve_package_file(f) ==
    IF EndsWith(f, ".whl") /\ Cardinality(Dashes(f)) >= 4
    THEN [name |-> Some(SubSeq(f, 1, DashFromRight(f, 3) - 1)),
          version |-> Some(SubSeq(f, DashFromRight(f, 3) + 1, DashFromRight(f, 2) - 1))]
    ELSE IF (EndsWith(f, ".tar.gz") \/ EndsWith(f, ".zip")) /\ Dashes(f) # {}
    THEN [name |-> Some(SubSeq(f, 1, DashFromRight(f, 0) - 1)),
          version |-> Some(SubSeq(f, DashFromRight(f, 0) + 1, Len(f) - 1))]
    ELSE [name |-> None, version |-> None]

\* get_file_links on the project page of `name`: the candidates, in page order
get_file_links(name) ==
    IF name = Some(<<"foo">>)
    THEN <<WinWheel, LinuxWheel38, AnyWheel, SourceTar, LinuxWheel39, SourceZip>>
    ELSE <<>>

---------------------------------------------------------------------------
(* Lines 122-153: the config file and the tags in force *)

EmptyDict == [platform_tags |-> None, python_versions |-> None]
Absent == [kind |-> "absent", dict |-> EmptyDict]

\* lines 122-125: --show-config creates the file, empty, when it is missing
touch(a, sf) ==
    IF a.show_config /\ sf.kind = "absent"
    THEN [kind |-> "empty", dict |-> EmptyDict]
    ELSE sf

\* a plausible slip: the fallback of the except clause is a non-empty default
json_loads_default(sf) ==
    IF sf.kind = "json" THEN sf.dict
    ELSE [platform_tags |-> Some(<<(<<"win_amd64">>)>>), python_versions |-> None]

\* lines 129-133: json.loads, JSONDecodeError (empty or malformed text) gives {}
json_loads(sf) ==
    IF sf.kind = "json" THEN sf.dict ELSE EmptyDict

\* lines 135-136
python_versions_of(a, sf) ==
    IF sf.kind # "absent" /\ ~Truthy(Some(a.python_versions))
    THEN json_loads(sf).python_versions
    ELSE Some(a.python_versions)

\* lines 140-141, then lines 149-153
platform_tags_of(a, sf) ==
    LET from_config ==
            IF /\ sf.kind # "absent"
               /\ (~Truthy(Some(a.whl_suffixes)) \/ ~Truthy(Some(a.platform_tags)))
            THEN json_loads(sf).platform_tags
            ELSE Some(a.platform_tags)
    IN IF Truthy(Some(a.whl_suffixes)) THEN Some(a.whl_suffixes) ELSE from_config

---------------------------------------------------------------------------
(* Lines 214-249: what is decided for one candidate *)

\* the loops of lines 231-236 and 241-246
RECURSIVE TagLoop(_, _, _)
TagLoop(tags, file, eligible) ==
    IF tags = <<>> THEN eligible
    ELSE IF Contains(file, Head(tags)) THEN TRUE
    ELSE TagLoop(Tail(tags), file, FALSE)

\* a plausible slip: the universal-wheel test placed after the tag tests
Decide_tags_first(file, fname, plat, py, no_source) ==
    LET e1 == IF Truthy(plat) THEN TagLoop(plat.v, file, TRUE) ELSE TRUE
        e2 == IF Truthy(py) THEN TagLoop(py.v, file, e1) ELSE e1
    IN  IF (EndsWith(fname, ".tar.gz") \/ EndsWith(fname, ".zip")) /\ ~no_source
        THEN "source"
        ELSE IF ~e1 THEN "platform-reject"
        ELSE IF ~e2 THEN "python-reject"
        ELSE IF Contains(file, none_any) THEN "none-any"
        ELSE "eligible"

\* a plausible slip: lines 237-238 (`if not eligible: continue`) left out
Decide_no_short_circuit(file, fname, plat, py, no_source) ==
    LET e1 == IF Truthy(plat) THEN TagLoop(plat.v, file, TRUE) ELSE TRUE
        e2 == IF Truthy(py) THEN TagLoop(py.v, file, e1) ELSE e1
    IN  IF Contains(file, none_any) THEN "none-any"
        ELSE IF (EndsWith(fname, ".tar.gz") \/ EndsWith(fname, ".zip")) /\ ~no_source
        THEN "source"
        ELSE IF e2 THEN "eligible" ELSE "python-reject"

\* the branch of lines 216-249 taken for candidate `file` while the workspace
\* file `fname` is processed
Decide(file, fname, plat, py, no_source) ==
    LET e1 == IF Truthy(plat) THEN TagLoop(plat.v, file, TRUE) ELSE TRUE
        e2 == IF Truthy(py) THEN TagLoop(py.v, file, e1) ELSE e1
    IN  IF Contains(file, none_any) THEN "none-any"
        ELSE IF (EndsWith(fname, ".tar.gz") \/ EndsWith(fname, ".zip")) /\ ~no_source
        THEN "source"
        ELSE IF ~e1 THEN "platform-reject"
        ELSE IF e2 THEN "eligible" ELSE "python-reject"

\* the branches that call download(file, dest_dir)
Downloads(rule) == rule \in {"none-any", "source", "eligible"}

---------------------------------------------------------------------------
(* The run *)

NoDecision ==
    [valid |-> FALSE, file_name |-> <<>>, file |-> <<>>, rule |-> "", downloaded |-> FALSE]

Log(level, msg, about) == [level |-> level, msg |-> msg, about |-> about]

ArgsOK(a) == a.requirement_file.given \/ a.requirement_file.entries = {}

Start(argset, files) ==
    /\ args \in {a \in argset : ArgsOK(a)}
    /\ settings_file0 \in files
    /\ settings_file = settings_file0
    /\ platform_tags = Some(args.platform_tags)
    /\ python_versions = Some(args.python_versions)
    /\ pc = "config"
    /\ todo_extra = {}
    /\ pos = 0
    /\ directory = {}
    /\ file_name = <<>>
    /\ links = <<>>
    /\ dest = {}
    /\ calls = <<>>
    /\ queries = {}
    /\ fetched = {}
    /\ logs = {}
    /\ last = NoDecision
    /\ raised = "none"

ConfigFiles ==
    {Absent, [kind |-> "malformed", dict |-> EmptyDict]} \cup
    {[kind |-> "json", dict |-> EmptyDict],
     [kind |-> "json", dict |-> [platform_tags |-> Some(<<(<<"manylinux">>)>>),
                                 python_versions |-> None]],
     [kind |-> "json", dict |-> [platform_tags |-> Some(<<(<<"manylinux">>)>>),
                                 python_versions |-> Some(<<(<<"cp27">>)>>)]]}

\* batches of packages, under a fixed choice of filter options
Init ==
    Start([packages : PackageSeqs,
           requirement_file : [given : BOOLEAN, entries : SUBSET PackageSpecs],
           whl_suffixes : {<<>>},
           platform_tags : {<<(<<"win_amd64">>)>>},
           python_versions : {<<>>},
           no_source : BOOLEAN,
           show_config : {FALSE}],
          {Absent})

\* one package, under every choice of filter options and config file
InitFilter ==
    Start([packages : {<<"a">>},
           requirement_file : {[given |-> FALSE, entries |-> {}]},
           whl_suffixes : {<<>>, <<(<<"manylinux">>)>>},
           platform_tags : TagSeqs(PlatformPool),
           python_versions : TagSeqs(VersionPool),
           no_source : BOOLEAN,
           show_config : BOOLEAN],
          ConfigFiles)

\* lines 122-171: config file, tags in force, the packages to iterate
LoadConfig ==
    /\ pc = "config"
    /\ settings_file' = touch(args, settings_file)
    /\ python_versions' = python_versions_of(args, touch(args, settings_file))
    /\ platform_tags' = platform_tags_of(args, touch(args, settings_file))
    /\ todo_extra' = IF args.requirement_file.given
                     THEN args.requirement_file.entries ELSE {}
    /\ pc' = "loop"
    /\ UNCHANGED <<args, settings_file0, pos, directory, file_name, links, dest,
                   calls, queries, fetched, logs, last, raised>>

\* line 172: itertools.chain(packages_extra, packages) has a next element p;
\* the set packages_extra is iterated in an arbitrary order
Chain(p) ==
    \/ p \in todo_extra /\ todo_extra' = todo_extra \ {p} /\ pos' = pos
    \/ /\ todo_extra = {}
       /\ pos < Len(args.packages)
       /\ p = args.packages[pos + 1]
       /\ pos' = pos + 1
       /\ todo_extra' = todo_extra

\* lines 173-201: pip download succeeds and leaves files in the directory
PipDownload ==
    /\ pc = "loop"
    /\ \E p \in PackageSpecs :
        /\ Chain(p)
        /\ calls' = Append(calls, [package |-> p, ok |-> TRUE])
        /\ logs' = {Log("info", "using pip download", <<p>>)}
    /\ \E ws \in SUBSET WorkspacePool :
        /\ Cardinality(ws) \in 1..MaxFiles
        /\ directory' = ws
    /\ pc' = "files"
    /\ queries' = {}
    /\ fetched' = {}
    /\ UNCHANGED <<args, settings_file0, settings_file, platform_tags,
                   python_versions, file_name, links, dest, last, raised>>

\* a plausible slip: the except clause logs and does not re-raise
PipDownloadFails_swallowed ==
    /\ pc = "loop"
    /\ \E p \in PackageSpecs :
        /\ Chain(p)
        /\ calls' = Append(calls, [package |-> p, ok |-> FALSE])
        /\ logs' = {Log("info", "using pip download", <<p>>),
                     Log("error", "can not use pip download", <<p>>)}
    /\ directory' = {}
    /\ pc' = "files"
    /\ queries' = {}
    /\ fetched' = {}
    /\ UNCHANGED <<args, settings_file0, settings_file, platform_tags,
                   python_versions, file_name, links, dest, last, raised>>

\* lines 179-200: check_call raises CalledProcessError; logged, re-raised
PipDownloadFails ==
    /\ pc = "loop"
    /\ \E p \in PackageSpecs :
        /\ Chain(p)
        /\ calls' = Append(calls, [package |-> p, ok |-> FALSE])
        /\ logs' = {Log("info", "using pip download", <<p>>),
                     Log("error", "can not use pip download", <<p>>)}
    /\ raised' = "CalledProcessError"
    /\ pc' = "failed"
    /\ queries' = {}
    /\ fetched' = {}
    /\ UNCHANGED <<args, settings_file0, settings_file, platform_tags,
                   python_versions, directory, file_name, links, dest, last>>

\* a plausible slip: an unresolved file aborts the run
SkipUnresolved_abort ==
    /\ pc = "files"
    /\ \E f \in directory :
        /\ resolve_package_file(f).name = None
        /\ directory' = directory \ {f}
        /\ file_name' = f
    /\ logs' = logs \cup {Log("warning", "can not resolve name and version", <<>>)}
    /\ raised' = "ValueError"
    /\ pc' = "failed"
    /\ UNCHANGED <<args, settings_file0, settings_file, platform_tags,
                   python_versions, todo_extra, pos, links, dest, calls, queries,
                   fetched, last>>

\* lines 203-210: the name is None: warning, continue
SkipUnresolved ==
    /\ pc = "files"
    /\ \E f \in directory :
        /\ resolve_package_file(f).name = None
        /\ directory' = directory \ {f}
        /\ file_name' = f
    /\ logs' = logs \cup {Log("warning", "can not resolve name and version", <<>>)}
    /\ UNCHANGED <<args, settings_file0, settings_file, platform_tags,
                   python_versions, pc, todo_extra, pos, links, dest, calls,
                   queries, fetched, last, raised>>

\* lines 203-214: the name is known, session.get returns the project page
GetIndex ==
    /\ pc = "files"
    /\ \E f \in directory :
        /\ resolve_package_file(f).name # None
        /\ directory' = directory \ {f}
        /\ file_name' = f
        /\ queries' = queries \cup {resolve_package_file(f).name.v}
        /\ links' = get_file_links(resolve_package_file(f).name)
        /\ pc' = IF get_file_links(resolve_package_file(f).name) = <<>>
                 THEN "files" ELSE "candidates"
    /\ UNCHANGED <<args, settings_file0, settings_file, platform_tags,
                   python_versions, todo_extra, pos, dest, calls, fetched, logs,
                   last, raised>>

\* lines 213, 251-257: session.get raises an instance of the builtin
\* ConnectionError, the class the except clause names: logged, re-raised
GetIndexRaisesBuiltin ==
    /\ pc = "files"
    /\ \E f \in directory :
        /\ resolve_package_file(f).name # None
        /\ directory' = directory \ {f}
        /\ file_name' = f
        /\ queries' = queries \cup {resolve_package_file(f).name.v}
        /\ logs' = logs \cup {Log("error", "can not get information about package",
                                  resolve_package_file(f).name.v)}
    /\ raised' = "ConnectionError"
    /\ pc' = "failed"
    /\ UNCHANGED <<args, settings_file0, settings_file, platform_tags,
                   python_versions, todo_extra, pos, links, dest, calls, fetched,
                   last>>

\* lines 12-13, 28-29, 213, 251: `session` is a requests session, whose
\* connection failures are requests.exceptions.ConnectionError, a subclass of
\* RequestException and not of the builtin ConnectionError that line 251
\* names (the module imports no other ConnectionError): no clause catches it
GetIndexRaisesRequests ==
    /\ pc = "files"
    /\ \E f \in directory :
        /\ resolve_package_file(f).name # None
        /\ directory' = directory \ {f}
        /\ file_name' = f
        /\ queries' = queries \cup {resolve_package_file(f).name.v}
    /\ raised' = "requests.exceptions.ConnectionError"
    /\ pc' = "failed"
    /\ UNCHANGED <<args, settings_file0, settings_file, platform_tags,
                   python_versions, todo_extra, pos, links, dest, calls, fetched,
                   logs, last>>

\* lines 214-249: one turn of the loop over the candidates
Candidate ==
    /\ pc = "candidates"
    /\ links # <<>>
    /\ LET file == Head(links)
           rule == Decide(file, file_name, platform_tags, python_versions, args.no_source)
       IN /\ last' = [valid |-> TRUE, file_name |-> file_name, file |-> file,
                      rule |-> rule, downloaded |-> Downloads(rule)]
          /\ dest' = IF Downloads(rule) THEN dest \cup {file} ELSE dest
          /\ fetched' = IF Downloads(rule)
                        THEN fetched \cup {file}
                        ELSE fetched
    /\ links' = Tail(links)
    /\ pc' = IF Tail(links) = <<>> THEN "files" ELSE "candidates"
    /\ UNCHANGED <<args, settings_file0, settings_file, platform_tags,
                   python_versions, todo_extra, pos, directory, file_name, calls,
                   queries, logs, raised>>

\* line 258: every file of the directory was iterated
PackageDone ==
    /\ pc = "files"
    /\ directory = {}
    /\ logs' = logs \cup {Log("info", "all packages downloaded", <<>>)}
    /\ pc' = "loop"
    /\ UNCHANGED <<args, settings_file0, settings_file, platform_tags,
                   python_versions, todo_extra, pos, directory, file_name, links,
                   dest, calls, queries, fetched, last, raised>>

\* line 172: the chain is exhausted, pipdownload() returns
Return ==
    /\ pc = "loop"
    /\ todo_extra = {}
    /\ pos = Len(args.packages)
    /\ pc' = "done"
    /\ UNCHANGED <<args, settings_file0, settings_file, platform_tags,
                   python_versions, todo_extra, pos, directory, file_name, links,
                   dest, calls, queries, fetched, logs, last, raised>>

Next ==
    \/ LoadConfig
    \/ PipDownload
    \/ PipDownloadFails
    \/ SkipUnresolved
    \/ GetIndex
    \/ GetIndexRaisesBuiltin
    \/ GetIndexRaisesRequests
    \/ Candidate
    \/ PackageDone
    \/ Return

Spec == Init /\ [][Next]_vars
SpecFilter == InitFilter /\ [][Next]_vars

---------------------------------------------------------------------------
(* Properties *)

IsSourceArchive(f) == EndsWith(f, ".tar.gz") \/ EndsWith(f, ".zip")
TagIn(tags, file) == \E i \in 1..Len(tags.v) : Contains(file, tags.v[i])
AxisPasses(tags, file) == ~Truthy(tags) \/ TagIn(tags, file)
Unconstrained(x) == IF Truthy(x) THEN x.v ELSE <<>>
Warning == Log("warning", "can not resolve name and version", <<>>)
Success == Log("info", "all packages downloaded", <<>>)

\* C1: a candidate whose own name ends in .tar.gz or .zip is downloaded
\* whenever --no-source is absent, whatever the tags and whatever file the
\* resolver left in the workspace; with --no-source and tags set, a source
\* candidate containing none of the tags is not downloaded.
C1_SourceCandidateAlwaysTaken ==
    (last.valid /\ IsSourceArchive(last.file)) =>
        /\ ~args.no_source => (last.downloaded /\ last.file \in dest)
        /\ ( /\ args.no_source
             /\ Truthy(platform_tags) \/ Truthy(python_versions)
             /\ ~TagIn(platform_tags, last.file)
             /\ ~TagIn(python_versions, last.file) ) => ~last.downloaded

\* C2: a candidate containing none-any is downloaded to the destination under
\* every combination of platform tags, python-version tags and --no-source,
\* and it is the first rule, the one tested before any tag, that takes it.
C2_UniversalWheelAlwaysTaken ==
    (last.valid /\ Contains(last.file, none_any)) =>
        /\ last.downloaded
        /\ last.rule = "none-any"
        /\ last.file \in dest
        /\ last.file \in fetched

\* C2 witness: the universal wheel was taken under --no-source and a filter
\* that no file name of the index matches.
C2_Witness ==
    /\ last.valid /\ last.file = AnyWheel /\ last.downloaded
    /\ args.no_source
    /\ platform_tags = Some(<<(<<"sunos">>)>>)
    /\ python_versions = Some(<<(<<"cp27">>)>>)

C4_CliOverridesConfig ==
    (pc # "config" /\ args.whl_suffixes = <<>>) =>
        /\ args.platform_tags # <<>> => platform_tags = Some(args.platform_tags)
        /\ args.python_versions # <<>> => python_versions = Some(args.python_versions)

\* C5: the resolver is invoked at most once for each distinct package spec.
C5_ResolverOncePerSpec ==
    \A i, j \in 1..Len(calls) :
        i # j => calls[i].package # calls[j].package

\* C6: once the resolver has failed for a package the failure has left the
\* run, nothing was queried or downloaded for that package, no further step
\* is taken, and the destination keeps every file it had: the failing step
\* leaves it as it was and no step ever removes a file from it.
ResolverFailed(cs) == \E i \in 1..Len(cs) : ~cs[i].ok
C6_FailFast ==
    /\ [](ResolverFailed(calls) =>
            /\ raised = "CalledProcessError"
            /\ pc = "failed"
            /\ queries = {}
            /\ fetched = {})
    /\ [][ /\ ~ResolverFailed(calls)
           /\ dest \subseteq dest'
           /\ ResolverFailed(calls') => dest' = dest ]_vars

\* C6 witness: the resolver failed for the second package after the first
\* one had put files in the destination.
C6_Witness ==
    /\ Len(calls) = 2 /\ calls[1].ok /\ ~calls[2].ok
    /\ dest # {}
    /\ pc = "failed"

\* C7: with no filter flag, a run that finds a config file of invalid JSON
\* gets past the config file (the JSONDecodeError is caught, json_loads), has
\* both axes unconstrained and decides every candidate as the run that finds
\* no config file decides it.
NoFilterFlags ==
    /\ args.platform_tags = <<>>
    /\ args.python_versions = <<>>
    /\ args.whl_suffixes = <<>>
C7_MalformedAsAbsent ==
    (settings_file0.kind = "malformed" /\ NoFilterFlags /\ pc # "config") =>
        /\ ~Truthy(platform_tags)
        /\ ~Truthy(python_versions)
        /\ last.valid =>
              last.rule = Decide(last.file, last.file_name,
                                 platform_tags_of(args, touch(args, Absent)),
                                 python_versions_of(args, touch(args, Absent)),
                                 args.no_source)

\* C7 witness: under a malformed config file and no filter flag a platform
\* wheel was downloaded while a wheel was the workspace file.
C7_Witness ==
    /\ settings_file0.kind = "malformed" /\ NoFilterFlags
    /\ last.valid /\ last.file = LinuxWheel38 /\ last.file_name = WinWheel
    /\ last.downloaded

\* C8: a run with --show-config has the tags in force, and decides every
\* candidate, as the run without it on the same command line and the same
\* initial config file.
C8_ShowConfigChangesNothing ==
    (args.show_config /\ pc # "config") =>
        LET a0 == [args EXCEPT !.show_config = FALSE]
            plat0 == platform_tags_of(a0, touch(a0, settings_file0))
            py0 == python_versions_of(a0, touch(a0, settings_file0))
        IN  /\ Unconstrained(platform_tags) = Unconstrained(plat0)
            /\ Unconstrained(python_versions) = Unconstrained(py0)
            /\ last.valid =>
                  last.downloaded =
                      Downloads(Decide(last.file, last.file_name, plat0, py0, args.no_source))

\* C9: the step that takes an unclassifiable file from the workspace logs a
\* warning, makes no index query and no download, raises nothing, and leaves
\* the remaining files of the package and the remaining packages to be
\* processed.
C9_UnresolvedSkipped ==
    [][ \A f \in directory \ directory' :
            (pc = "files" /\ resolve_package_file(f).name = None) =>
                /\ Warning \in logs'
                /\ queries' = queries
                /\ fetched' = fetched
                /\ dest' = dest
                /\ raised' = "none"
                /\ pc' = "files"
                /\ directory' = directory \ {f}
                /\ todo_extra' = todo_extra
                /\ pos' = pos
                /\ calls' = calls ]_vars

\* C9 witness: after the warning for this package, another file of the same
\* package has its candidates examined.
C9_Witness ==
    /\ Warning \in logs
    /\ pc = "candidates"
    /\ file_name # Unknown
    /\ raised = "none"

\* C10: when the index page fetch fails with a connection-level error, the
\* error is logged with the project name, the run ends with that error and
\* the success message of the package is not emitted.
C10_IndexErrorLogged ==
    raised \in {"ConnectionError", "requests.exceptions.ConnectionError"} =>
        /\ pc = "failed"
        /\ Log("error", "can not get information about package",
               resolve_package_file(file_name).name.v) \in logs
        /\ Success \notin logs

====
